---- MODULE Spec2Model ----
EXTENDS Integers, Sequences, FiniteSets, TLC

(***************************************************************************)
(* Model of main.py: five SQLAlchemy tables behind FastAPI handlers, with  *)
(* a Redis read cache in front of the list queries.                        *)
(***************************************************************************)

\* ---------------------------------------------------------------- bounds
\* Largest auto-increment id a table hands out.
MaxId == 2
\* Number of HTTP requests served in one behaviour.
MaxOps == 4
\* Number of requests that can be in flight at once.
NProcs == 2

\* ------------------------------------------------------- program constants
\* redis_client.set("orders", ..., ex=600)
ORDERS_EX == 600

\* Python None, and Optional values: None or <<v>>.
None == <<>>
Some(v) == <<v>>

\* Python truthiness of an Optional[int]: None and 0 are falsy.
Truthy(x) == x # None /\ x # Some(0)

\* ------------------------------------------------------------ input domains
UserNames == {"ana"}
Emails == {"a@x", "b@x"}
Passwords == {"pw1", "pw2"}
CatNames == {"Drinks", "Food"}
ArtNames == {"Cola"}
Descriptions == {None, Some("fizzy")}
Ratings == {"good", "bad"}
Ids == 1..MaxId
CategoryIdInputs == {None, Some(0)} \cup {Some(i) : i \in Ids}
\* The artikal_id / user_id values an order request carries.
OrderArtikalIds == {1}
OrderUserIds == {1, 2}
\* The resource families that receive requests in one behaviour: each pair
\* of families joined by a foreign key or a cascade, and the unrelated
\* family alone.  (Where FOREIGN KEY is enforced an order needs a user and
\* an article, so order rows arise in the behaviours where it is not.)
Workloads ==
    {{"users", "orders"}, {"categories", "artikli"}, {"artikli", "orders"},
     {"recenzije"}}

VARIABLES
    users,        \* table users: id -> [name, email, hashed_password]
    categories,   \* table categories: id -> [name]
    artikli,      \* table artikli: id -> [name, description, category_id]
    orders,       \* table orders: id -> [artikal_id, user_id]
    recenzije,    \* table recenzija: id -> [rating]
    nextId,       \* per table, the next AUTO_INCREMENT primary key
    cache,        \* Redis: key -> [present, val, ex]
    cacheUp,      \* whether Redis answers
    fkEnforced,   \* whether the storage engine enforces FOREIGN KEY
    resp,         \* the response of the last request served
    nreq,         \* number of requests served
    workload,     \* the resource families this behaviour sends requests to
    procs,        \* the requests in flight, when handlers are interleaved
    sessions      \* the store sessions that are open

store == <<users, categories, artikli, orders, recenzije, nextId>>
vars == <<users, categories, artikli, orders, recenzije, nextId,
          cache, cacheUp, fkEnforced, resp, nreq, workload, procs, sessions>>

\* ------------------------------------------------------------------ Redis
CollKeys == {"users", "categories", "artikli", "orders", "recenzije"}
IdPrefixes == {"user", "category", "artikal", "artikli", "order", "recenzija"}
\* f"{prefix}:{id}"
Key(prefix, id) == prefix \o ":" \o ToString(id)
AllKeys == CollKeys \cup {Key(p, i) : p \in IdPrefixes, i \in Ids}

Absent == [present |-> FALSE, val |-> None, ex |-> 0]

\* json.dumps gives a non-empty string, json.loads gives the data back.
json_dumps(data) == <<"json", data>>
json_loads(s) == s[2]

RedisGet(c, k) == IF c[k].present THEN c[k].val ELSE None
RedisSet(c, k, v) == [c EXCEPT ![k] = [present |-> TRUE, val |-> v, ex |-> 0]]
RedisSetEx(c, k, v, ex) == [c EXCEPT ![k] = [present |-> TRUE, val |-> v, ex |-> ex]]
RedisDelete(c, k) == [c EXCEPT ![k] = Absent]

\* cached = redis_client.get(k); if cached: return json.loads(cached)
\* ... else the rows just queried from the store.
ServedMut(c, k, rows) == rows
Served(c, k, rows) ==
    IF RedisGet(c, k) # None THEN json_loads(RedisGet(c, k)) ELSE rows

\* ------------------------------------------------------- password hashing
\* pwd_context.hash / verify: the digest verifies exactly its own plaintext.
hash_password(password) == <<"bcrypt", password>>
verify_passwordMut(plain_password, hashed_password) == TRUE
verify_password(plain_password, hashed_password) ==
    hashed_password = <<"bcrypt", plain_password>>

\* ------------------------------------------------------------ store helpers
RECURSIVE SortedIds(_)
\* db.query(X).all(): the rows in primary-key order.
SortedIds(S) ==
    IF S = {} THEN <<>>
    ELSE LET m == CHOOSE x \in S : \A y \in S : x <= y
         IN <<m>> \o SortedIds(S \ {m})

Insert(t, id, row) == [i \in DOMAIN t \cup {id} |-> IF i = id THEN row ELSE t[i]]
Remove(t, S) == [i \in DOMAIN t \ S |-> t[i]]
Bump(n, table) == [n EXCEPT ![table] = @ + 1]

\* Column(String(100), unique=True): the commit fails on a duplicate email.
UsersUniqueMut(us) == TRUE
UsersUnique(us) ==
    \A i, j \in DOMAIN us : us[i].email = us[j].email => i = j

\* ForeignKey("categories.id") on artikli.category_id.
ArtikliFK(as, cs) ==
    fkEnforced =>
        \A a \in DOMAIN as :
            as[a].category_id # None => as[a].category_id[1] \in DOMAIN cs
\* ForeignKey("artikli.id"), ForeignKey("users.id") on orders.
OrdersFK(os, as, us) ==
    fkEnforced =>
        \A o \in DOMAIN os :
            os[o].artikal_id \in DOMAIN as /\ os[o].user_id \in DOMAIN us

\* -------------------------------------------------------------- snapshots
UserDictMut(us, i) ==
    [id |-> i, name |-> us[i].name, email |-> us[i].email,
     hashed_password |-> us[i].hashed_password]
UserDict(us, i) == [id |-> i, name |-> us[i].name, email |-> us[i].email]
CategoryDict(cs, i) == [id |-> i, name |-> cs[i].name]
ArtikalDict(as, i) ==
    [id |-> i, name |-> as[i].name, description |-> as[i].description,
     category_id |-> as[i].category_id]
OrderDict(os, i) ==
    [id |-> i, user_id |-> os[i].user_id, artikal_id |-> os[i].artikal_id]
OrderIdDict(os, i) == [id |-> i, user_id |-> os[i].user_id]
RecenzijaDict(rs, i) == [id |-> i, rating |-> rs[i].rating]

users_list(us) ==
    LET ids == SortedIds(DOMAIN us)
    IN [k \in 1..Len(ids) |-> UserDict(us, ids[k])]
categories_list(cs) ==
    LET ids == SortedIds(DOMAIN cs)
    IN [k \in 1..Len(ids) |-> CategoryDict(cs, ids[k])]
artikli_list(as) ==
    LET ids == SortedIds(DOMAIN as)
    IN [k \in 1..Len(ids) |-> ArtikalDict(as, ids[k])]
orders_data(os) ==
    LET ids == SortedIds(DOMAIN os)
    IN [k \in 1..Len(ids) |-> OrderDict(os, ids[k])]
recenzije_list(rs) ==
    LET ids == SortedIds(DOMAIN rs)
    IN [k \in 1..Len(ids) |-> RecenzijaDict(rs, ids[k])]

\* -------------------------------------------------------------- responses
\* A request of this family is served: the behaviour's request budget is
\* not used up and the family is part of its workload.
Serving(family) == nreq < MaxOps /\ family \in workload

\* ------------------------------------------------------------- sessions
\* get_db: db = SessionLocal(), a session of its own for the request ...
get_db_open(S, s) == S \cup {s}
\* SessionLocal(): a session that is none of the open ones.
SessionLocal(S) ==
    CHOOSE s \in 1..(MaxOps + 1) : s \notin S /\ \A t \in 1..(s - 1) : t \in S
\* ... finally: db.close(), run when the request ends, however it ends.
get_db_closeMut(S, s) == S
get_db_close(S, s) == S \ {s}

\* A handler served in one step: its session is opened and closed within it.
Respond(op, status, detail, body) ==
    /\ resp' = [op |-> op, status |-> status, detail |-> detail, body |-> body,
                up |-> cacheUp]
    /\ nreq' = nreq + 1
    /\ sessions' = get_db_close(get_db_open(sessions, SessionLocal(sessions)),
                                SessionLocal(sessions))
    /\ UNCHANGED <<workload, procs>>

Procs == 1..NProcs
\* A worker with no request: the locals of a request are its path id, its
\* input name, the rows it has queried and its session db (0: none).
IdleProc == [pc |-> "idle", id |-> 0, name |-> "", rows |-> <<>>, db |-> 0]

Init ==
    /\ users = <<>>
    /\ categories = <<>>
    /\ artikli = <<>>
    /\ orders = <<>>
    /\ recenzije = <<>>
    /\ nextId = [t \in {"users", "categories", "artikli", "orders", "recenzija"} |-> 1]
    /\ cache = [k \in AllKeys |-> Absent]
    /\ cacheUp = TRUE
    /\ fkEnforced \in BOOLEAN
    /\ resp = [op |-> "", status |-> 0, detail |-> "", body |-> <<>>, up |-> TRUE]
    /\ nreq = 0
    /\ workload \in Workloads
    /\ procs = [p \in Procs |-> IdleProc]
    /\ sessions = {}

\* ------------------------------------------------------- environment steps
\* Redis becomes unreachable / reachable again; its contents are kept.
CacheFail ==
    /\ cacheUp
    /\ cacheUp' = FALSE
    /\ UNCHANGED <<store, cache, fkEnforced, resp, nreq, workload, procs, sessions>>

CacheRecover ==
    /\ ~cacheUp
    /\ cacheUp' = TRUE
    /\ UNCHANGED <<store, cache, fkEnforced, resp, nreq, workload, procs, sessions>>

\* The expiration window of a key written with ex= elapses.
Expire ==
    \E k \in AllKeys :
        /\ cache[k].present
        /\ cache[k].ex > 0
        /\ cache' = RedisDelete(cache, k)
        /\ UNCHANGED <<store, cacheUp, fkEnforced, resp, nreq, workload, procs,
                       sessions>>

\* ------------------------------------------------------------ /register
\* db.query(User).filter(User.email == email).first()
EmailRegisteredMut(us, email) == FALSE
EmailRegistered(us, email) == \E i \in DOMAIN us : us[i].email = email

register(name, email, password) ==
    /\ Serving("users")
    /\ IF EmailRegistered(users, email)
       THEN /\ Respond("register", 400, "Email already registered.", <<>>)
            /\ UNCHANGED <<store, cache>>
       ELSE /\ nextId["users"] <= MaxId
            /\ LET id == nextId["users"]
                   us == Insert(users, id,
                                [name |-> name, email |-> email,
                                 hashed_password |-> hash_password(password)])
               IN IF UsersUnique(us)
                  THEN /\ users' = us
                       /\ nextId' = Bump(nextId, "users")
                       /\ Respond("register", 200, "", <<UserDict(us, id)>>)
                  ELSE /\ UNCHANGED <<users, nextId>>
                       /\ Respond("register", 500, "IntegrityError", <<>>)
            /\ UNCHANGED <<categories, artikli, orders, recenzije, cache>>
    /\ UNCHANGED <<cacheUp, fkEnforced>>

\* --------------------------------------------------------------- /login
login(email, password) ==
    /\ Serving("users")
    /\ IF \E i \in DOMAIN users :
              /\ users[i].email = email
              /\ verify_password(password, users[i].hashed_password)
       THEN Respond("login", 200, "", <<[message |-> "Login successful"]>>)
       ELSE Respond("login", 400, "Invalid credentials.", <<>>)
    /\ UNCHANGED <<store, cache, cacheUp, fkEnforced>>

\* --------------------------------------------------------------- /users
\* try: redis_client.delete("users") except: print(...)
GuardedDeleteMut(c, k) == c
GuardedDelete(c, k) == IF cacheUp THEN RedisDelete(c, k) ELSE c

create_user(name, email, password) ==
    /\ Serving("users")
    /\ IF EmailRegistered(users, email)
       THEN /\ Respond("create_user", 400, "Email already registered", <<>>)
            /\ UNCHANGED <<store, cache>>
       ELSE /\ nextId["users"] <= MaxId
            /\ LET id == nextId["users"]
                   us == Insert(users, id,
                                [name |-> name, email |-> email,
                                 hashed_password |-> hash_password(password)])
               IN IF UsersUnique(us)
                  THEN /\ users' = us
                       /\ nextId' = Bump(nextId, "users")
                       /\ cache' = GuardedDelete(cache, "users")
                       /\ Respond("create_user", 200, "", <<UserDict(us, id)>>)
                  ELSE /\ UNCHANGED <<users, nextId, cache>>
                       /\ Respond("create_user", 500, "IntegrityError", <<>>)
            /\ UNCHANGED <<categories, artikli, orders, recenzije>>
    /\ UNCHANGED <<cacheUp, fkEnforced>>

\* What list_users returns while Redis answers.
list_users_body == Served(cache, "users", users_list(users))

list_users ==
    /\ Serving("users")
    /\ IF ~cacheUp
       THEN /\ Respond("list_users", 500, "ConnectionError", <<>>)
            /\ UNCHANGED cache
       ELSE IF RedisGet(cache, "users") # None
       THEN /\ Respond("list_users", 200, "", list_users_body)
            /\ UNCHANGED cache
       ELSE /\ cache' = RedisSet(cache, "users", json_dumps(users_list(users)))
            /\ Respond("list_users", 200, "", list_users_body)
    /\ UNCHANGED <<store, cacheUp, fkEnforced>>

update_user(user_id, name, email, password) ==
    /\ Serving("users")
    /\ IF user_id \notin DOMAIN users
       THEN /\ Respond("update_user", 404, "User not found", <<>>)
            /\ UNCHANGED <<users, cache>>
       ELSE LET us == [users EXCEPT ![user_id] =
                          [name |-> name, email |-> email,
                           hashed_password |-> hash_password(password)]]
            IN IF UsersUnique(us)
               THEN /\ users' = us
                    /\ cache' = GuardedDelete(cache, "users")
                    /\ Respond("update_user", 200, "", <<UserDict(us, user_id)>>)
               ELSE /\ UNCHANGED <<users, cache>>
                    /\ Respond("update_user", 500, "IntegrityError", <<>>)
    /\ UNCHANGED <<categories, artikli, orders, recenzije, nextId, cacheUp, fkEnforced>>

\* db.query(Order).filter(Order.user_id == user_id).delete()
DeleteUserOrdersMut(os, user_id) == os
DeleteUserOrders(os, user_id) ==
    Remove(os, {o \in DOMAIN os : os[o].user_id = user_id})

delete_user(user_id) ==
    /\ Serving("users")
    /\ IF user_id \notin DOMAIN users
       THEN /\ Respond("delete_user", 404, "User not found", <<>>)
            /\ UNCHANGED <<users, orders, cache>>
       ELSE LET os == DeleteUserOrders(orders, user_id)
                us == Remove(users, {user_id})
            IN IF ~OrdersFK(os, artikli, us)
               THEN /\ UNCHANGED <<users, orders, cache>>
                    /\ Respond("delete_user", 500, "IntegrityError", <<>>)
               ELSE /\ users' = us
                    /\ orders' = os
                    /\ IF cacheUp
                       THEN /\ cache' = RedisDelete(RedisDelete(cache, Key("user", user_id)), "users")
                            /\ Respond("delete_user", 200, "", <<>>)
                       ELSE /\ UNCHANGED cache
                            /\ Respond("delete_user", 500, "ConnectionError", <<>>)
    /\ UNCHANGED <<categories, artikli, recenzije, nextId, cacheUp, fkEnforced>>

\* ----------------------------------------------------------- /categories
create_category(name) ==
    /\ Serving("categories")
    /\ nextId["categories"] <= MaxId
    /\ LET id == nextId["categories"]
           cs == Insert(categories, id, [name |-> name])
       IN /\ categories' = cs
          /\ nextId' = Bump(nextId, "categories")
          /\ IF cacheUp
             THEN /\ cache' = RedisDelete(cache, "categories")
                  /\ Respond("create_category", 200, "", <<CategoryDict(cs, id)>>)
             ELSE /\ UNCHANGED cache
                  /\ Respond("create_category", 500, "ConnectionError", <<>>)
    /\ UNCHANGED <<users, artikli, orders, recenzije, cacheUp, fkEnforced>>

\* What list_categories returns while Redis answers.
list_categories_body == Served(cache, "categories", categories_list(categories))

list_categories ==
    /\ Serving("categories")
    /\ IF ~cacheUp
       THEN /\ Respond("list_categories", 500, "ConnectionError", <<>>)
            /\ UNCHANGED cache
       ELSE IF RedisGet(cache, "categories") # None
       THEN /\ Respond("list_categories", 200, "", list_categories_body)
            /\ UNCHANGED cache
       ELSE /\ cache' = RedisSet(cache, "categories",
                                 json_dumps(categories_list(categories)))
            /\ Respond("list_categories", 200, "", list_categories_body)
    /\ UNCHANGED <<store, cacheUp, fkEnforced>>

update_category(category_id, name) ==
    /\ Serving("categories")
    /\ IF category_id \notin DOMAIN categories
       THEN /\ Respond("update_category", 404, "Category not found", <<>>)
            /\ UNCHANGED <<categories, cache>>
       ELSE LET cs == [categories EXCEPT ![category_id] = [name |-> name]]
            IN /\ categories' = cs
               /\ cache' = GuardedDelete(cache, "categories")
               /\ Respond("update_category", 200, "", <<CategoryDict(cs, category_id)>>)
    /\ UNCHANGED <<users, artikli, orders, recenzije, nextId, cacheUp, fkEnforced>>

\* relationship("Artikal", cascade="all, delete"): the category's articles
\* are deleted with it.
DeleteCategoryArtikli(as, category_id) ==
    Remove(as, {a \in DOMAIN as : as[a].category_id = Some(category_id)})

delete_category(category_id) ==
    /\ Serving("categories")
    /\ IF category_id \notin DOMAIN categories
       THEN /\ Respond("delete_category", 404, "Category not found", <<>>)
            /\ UNCHANGED <<categories, artikli, cache>>
       ELSE LET as == DeleteCategoryArtikli(artikli, category_id)
                cs == Remove(categories, {category_id})
            IN IF ~(ArtikliFK(as, cs) /\ OrdersFK(orders, as, users))
               THEN /\ UNCHANGED <<categories, artikli, cache>>
                    /\ Respond("delete_category", 500, "IntegrityError", <<>>)
               ELSE /\ categories' = cs
                    /\ artikli' = as
                    /\ IF cacheUp
                       THEN /\ cache' = RedisDelete(RedisDelete(cache, "categories"),
                                                    Key("category", category_id))
                            /\ Respond("delete_category", 200, "", <<>>)
                       ELSE /\ UNCHANGED cache
                            /\ Respond("delete_category", 500, "ConnectionError", <<>>)
    /\ UNCHANGED <<users, orders, recenzije, nextId, cacheUp, fkEnforced>>

\* -------------------------------------------------------------- /artikli
\* if artikal.category_id: ... if not category: raise 400
CategoryMissing(cs, category_id) ==
    Truthy(category_id) /\ category_id[1] \notin DOMAIN cs

create_artikal(name, description, category_id) ==
    /\ Serving("artikli")
    /\ IF CategoryMissing(categories, category_id)
       THEN /\ Respond("create_artikal", 400, "Category does not exist", <<>>)
            /\ UNCHANGED <<artikli, nextId, cache>>
       ELSE /\ nextId["artikli"] <= MaxId
            /\ LET id == nextId["artikli"]
                   as == Insert(artikli, id,
                                [name |-> name, description |-> description,
                                 category_id |-> category_id])
               IN IF ~ArtikliFK(as, categories)
                  THEN /\ UNCHANGED <<artikli, nextId, cache>>
                       /\ Respond("create_artikal", 500, "IntegrityError", <<>>)
                  ELSE /\ artikli' = as
                       /\ nextId' = Bump(nextId, "artikli")
                       /\ IF cacheUp
                          THEN /\ cache' = RedisDelete(cache, "artikli")
                               /\ Respond("create_artikal", 200, "", <<ArtikalDict(as, id)>>)
                          ELSE /\ UNCHANGED cache
                               /\ Respond("create_artikal", 500, "ConnectionError", <<>>)
    /\ UNCHANGED <<users, categories, orders, recenzije, cacheUp, fkEnforced>>

\* What list_artikli returns while Redis answers.
list_artikli_body == Served(cache, "artikli", artikli_list(artikli))

list_artikli ==
    /\ Serving("artikli")
    /\ IF ~cacheUp
       THEN /\ Respond("list_artikli", 500, "ConnectionError", <<>>)
            /\ UNCHANGED cache
       ELSE IF RedisGet(cache, "artikli") # None
       THEN /\ Respond("list_artikli", 200, "", list_artikli_body)
            /\ UNCHANGED cache
       ELSE IF DOMAIN artikli = {}
       THEN /\ Respond("list_artikli", 404, "Nema artikala u bazi.", <<>>)
            /\ UNCHANGED cache
       ELSE /\ cache' = RedisSet(cache, "artikli", json_dumps(artikli_list(artikli)))
            /\ Respond("list_artikli", 200, "", list_artikli_body)
    /\ UNCHANGED <<store, cacheUp, fkEnforced>>

update_artikal(artikal_id, name, description, category_id) ==
    /\ Serving("artikli")
    /\ IF artikal_id \notin DOMAIN artikli
       THEN /\ Respond("update_artikal", 404, "Artikal not found", <<>>)
            /\ UNCHANGED <<artikli, cache>>
       ELSE LET as == [artikli EXCEPT ![artikal_id].name = name,
                                      ![artikal_id].description = description]
            IN /\ artikli' = as
               /\ IF cacheUp
                  THEN /\ cache' = RedisSet(RedisDelete(cache, "artikli"),
                                            Key("artikal", artikal_id),
                                            json_dumps(ArtikalDict(as, artikal_id)))
                       /\ Respond("update_artikal", 200, "", <<ArtikalDict(as, artikal_id)>>)
                  ELSE /\ UNCHANGED cache
                       /\ Respond("update_artikal", 500, "ConnectionError", <<>>)
    /\ UNCHANGED <<users, categories, orders, recenzije, nextId, cacheUp, fkEnforced>>

delete_artikal(artikal_id) ==
    /\ Serving("artikli")
    /\ IF artikal_id \notin DOMAIN artikli
       THEN /\ Respond("delete_artikal", 404, "Artikal not found", <<>>)
            /\ UNCHANGED <<artikli, cache>>
       ELSE LET as == Remove(artikli, {artikal_id})
            IN IF ~OrdersFK(orders, as, users)
               THEN /\ UNCHANGED <<artikli, cache>>
                    /\ Respond("delete_artikal", 500, "IntegrityError", <<>>)
               ELSE /\ artikli' = as
                    /\ IF cacheUp
                       THEN /\ cache' = RedisDelete(RedisDelete(cache, "artikli"),
                                                    Key("artikli", artikal_id))
                            /\ Respond("delete_artikal", 200, "", <<>>)
                       ELSE /\ UNCHANGED cache
                            /\ Respond("delete_artikal", 500, "ConnectionError", <<>>)
    /\ UNCHANGED <<users, categories, orders, recenzije, nextId, cacheUp, fkEnforced>>

\* --------------------------------------------------------------- /orders
create_order(artikal_id, user_id) ==
    /\ Serving("orders")
    /\ nextId["orders"] <= MaxId
    /\ LET id == nextId["orders"]
           os == Insert(orders, id, [artikal_id |-> artikal_id, user_id |-> user_id])
       IN IF ~OrdersFK(os, artikli, users)
          THEN /\ UNCHANGED <<orders, nextId, cache>>
               /\ Respond("create_order", 500, "IntegrityError", <<>>)
          ELSE /\ orders' = os
               /\ nextId' = Bump(nextId, "orders")
               /\ IF cacheUp
                  THEN /\ cache' = RedisSet(RedisDelete(cache, "orders"),
                                            Key("order", id),
                                            json_dumps(OrderIdDict(os, id)))
                       /\ Respond("create_order", 200, "", <<OrderDict(os, id)>>)
                  ELSE /\ UNCHANGED cache
                       /\ Respond("create_order", 500, "ConnectionError", <<>>)
    /\ UNCHANGED <<users, categories, artikli, recenzije, cacheUp, fkEnforced>>

\* redis_client.set("orders", json.dumps(orders_data), ex=600)
CacheOrdersMut(c, data) == RedisSet(c, "orders", json_dumps(data))
CacheOrders(c, data) == RedisSetEx(c, "orders", json_dumps(data), ORDERS_EX)

\* What list_orders returns while Redis answers.
list_orders_body == Served(cache, "orders", orders_data(orders))

list_orders ==
    /\ Serving("orders")
    /\ IF ~cacheUp
       THEN /\ Respond("list_orders", 500, "ConnectionError", <<>>)
            /\ UNCHANGED cache
       ELSE IF RedisGet(cache, "orders") # None
       THEN /\ Respond("list_orders", 200, "", list_orders_body)
            /\ UNCHANGED cache
       ELSE /\ cache' = CacheOrders(cache, orders_data(orders))
            /\ Respond("list_orders", 200, "", list_orders_body)
    /\ UNCHANGED <<store, cacheUp, fkEnforced>>

update_order(order_id, artikal_id, user_id) ==
    /\ Serving("orders")
    /\ IF order_id \notin DOMAIN orders
       THEN /\ Respond("update_order", 404, "Order not found", <<>>)
            /\ UNCHANGED <<orders, cache>>
       ELSE LET os == [orders EXCEPT ![order_id] =
                          [artikal_id |-> artikal_id, user_id |-> user_id]]
            IN IF ~OrdersFK(os, artikli, users)
               THEN /\ UNCHANGED <<orders, cache>>
                    /\ Respond("update_order", 500, "IntegrityError", <<>>)
               ELSE /\ orders' = os
                    /\ IF cacheUp
                       THEN /\ cache' = RedisSet(RedisDelete(cache, "orders"),
                                                 Key("order", order_id),
                                                 json_dumps(OrderIdDict(os, order_id)))
                            /\ Respond("update_order", 200, "", <<OrderDict(os, order_id)>>)
                       ELSE /\ UNCHANGED cache
                            /\ Respond("update_order", 500, "ConnectionError", <<>>)
    /\ UNCHANGED <<users, categories, artikli, recenzije, nextId, cacheUp, fkEnforced>>

\* A delete_order that invalidates before it looks the row up.
delete_orderMut(order_id) ==
    /\ Serving("orders")
    /\ orders' = Remove(orders, {order_id} \cap DOMAIN orders)
    /\ IF cacheUp
       THEN /\ cache' = RedisDelete(RedisDelete(cache, "orders"),
                                    Key("order", order_id))
            /\ IF order_id \notin DOMAIN orders
               THEN Respond("delete_order", 404, "Order not found", <<>>)
               ELSE Respond("delete_order", 200, "", <<>>)
       ELSE /\ UNCHANGED cache
            /\ Respond("delete_order", 500, "ConnectionError", <<>>)
    /\ UNCHANGED <<users, categories, artikli, recenzije, nextId, cacheUp, fkEnforced>>
delete_order(order_id) ==
    /\ Serving("orders")
    /\ IF order_id \notin DOMAIN orders
       THEN /\ Respond("delete_order", 404, "Order not found", <<>>)
            /\ UNCHANGED <<orders, cache>>
       ELSE /\ orders' = Remove(orders, {order_id})
            /\ IF cacheUp
               THEN /\ cache' = RedisDelete(RedisDelete(cache, "orders"),
                                            Key("order", order_id))
                    /\ Respond("delete_order", 200, "", <<>>)
               ELSE /\ UNCHANGED cache
                    /\ Respond("delete_order", 500, "ConnectionError", <<>>)
    /\ UNCHANGED <<users, categories, artikli, recenzije, nextId, cacheUp, fkEnforced>>

\* ------------------------------------------------------------ /recenzije
create_recenzija(rating) ==
    /\ Serving("recenzije")
    /\ nextId["recenzija"] <= MaxId
    /\ LET id == nextId["recenzija"]
           rs == Insert(recenzije, id, [rating |-> rating])
       IN /\ recenzije' = rs
          /\ nextId' = Bump(nextId, "recenzija")
          /\ IF cacheUp
             THEN /\ cache' = RedisSet(RedisDelete(cache, "recenzije"),
                                       Key("recenzija", id),
                                       json_dumps(RecenzijaDict(rs, id)))
                  /\ Respond("create_recenzija", 200, "", <<RecenzijaDict(rs, id)>>)
             ELSE /\ UNCHANGED cache
                  /\ Respond("create_recenzija", 500, "ConnectionError", <<>>)
    /\ UNCHANGED <<users, categories, artikli, orders, cacheUp, fkEnforced>>

\* What list_recenzije returns while Redis answers.
list_recenzije_body == Served(cache, "recenzije", recenzije_list(recenzije))

list_recenzije ==
    /\ Serving("recenzije")
    /\ IF ~cacheUp
       THEN /\ Respond("list_recenzije", 500, "ConnectionError", <<>>)
            /\ UNCHANGED cache
       ELSE IF RedisGet(cache, "recenzije") # None
       THEN /\ Respond("list_recenzije", 200, "", list_recenzije_body)
            /\ UNCHANGED cache
       ELSE /\ cache' = RedisSet(cache, "recenzije",
                                 json_dumps(recenzije_list(recenzije)))
            /\ Respond("list_recenzije", 200, "", list_recenzije_body)
    /\ UNCHANGED <<store, cacheUp, fkEnforced>>

update_recenzija(recenzija_id, rating) ==
    /\ Serving("recenzije")
    /\ IF recenzija_id \notin DOMAIN recenzije
       THEN /\ Respond("update_recenzija", 404, "Recenzija not found", <<>>)
            /\ UNCHANGED <<recenzije, cache>>
       ELSE LET rs == [recenzije EXCEPT ![recenzija_id] = [rating |-> rating]]
            IN /\ recenzije' = rs
               /\ IF cacheUp
                  THEN /\ cache' = RedisSet(RedisDelete(cache, "recenzije"),
                                            Key("recenzija", recenzija_id),
                                            json_dumps(RecenzijaDict(rs, recenzija_id)))
                       /\ Respond("update_recenzija", 200, "",
                                  <<RecenzijaDict(rs, recenzija_id)>>)
                  ELSE /\ UNCHANGED cache
                       /\ Respond("update_recenzija", 500, "ConnectionError", <<>>)
    /\ UNCHANGED <<users, categories, artikli, orders, nextId, cacheUp, fkEnforced>>

delete_recenzija(recenzija_id) ==
    /\ Serving("recenzije")
    /\ IF recenzija_id \notin DOMAIN recenzije
       THEN /\ Respond("delete_recenzija", 404, "Recenzija not found", <<>>)
            /\ UNCHANGED <<recenzije, cache>>
       ELSE /\ recenzije' = Remove(recenzije, {recenzija_id})
            /\ IF cacheUp
               THEN /\ cache' = RedisDelete(RedisDelete(cache, "recenzije"),
                                            Key("recenzija", recenzija_id))
                    /\ Respond("delete_recenzija", 200, "", <<>>)
               ELSE /\ UNCHANGED cache
                    /\ Respond("delete_recenzija", 500, "ConnectionError", <<>>)
    /\ UNCHANGED <<users, categories, artikli, orders, nextId, cacheUp, fkEnforced>>

\* ------------------------------------------------------- specification
UserRequest ==
    \/ \E n \in UserNames, e \in Emails, p \in Passwords :
          register(n, e, p) \/ create_user(n, e, p) \/ login(e, p)
    \/ list_users
    \/ \E i \in Ids, n \in UserNames, e \in Emails, p \in Passwords :
          update_user(i, n, e, p)
    \/ \E i \in Ids : delete_user(i)

CategoryRequest ==
    \/ \E n \in CatNames : create_category(n)
    \/ list_categories
    \/ \E i \in Ids, n \in CatNames : update_category(i, n)
    \/ \E i \in Ids : delete_category(i)

ArtikalRequest ==
    \/ \E n \in ArtNames, d \in Descriptions, c \in CategoryIdInputs :
          create_artikal(n, d, c)
    \/ list_artikli
    \/ \E i \in Ids, n \in ArtNames, d \in Descriptions, c \in CategoryIdInputs :
          update_artikal(i, n, d, c)
    \/ \E i \in Ids : delete_artikal(i)

OrderRequest ==
    \/ \E a \in OrderArtikalIds, u \in OrderUserIds : create_order(a, u)
    \/ list_orders
    \/ \E i \in Ids, a \in OrderArtikalIds, u \in OrderUserIds : update_order(i, a, u)
    \/ \E i \in Ids : delete_order(i)

RecenzijaRequest ==
    \/ \E r \in Ratings : create_recenzija(r)
    \/ list_recenzije
    \/ \E i \in Ids, r \in Ratings : update_recenzija(i, r)
    \/ \E i \in Ids : delete_recenzija(i)

Next ==
    \/ UserRequest
    \/ CategoryRequest
    \/ ArtikalRequest
    \/ OrderRequest
    \/ RecenzijaRequest
    \/ CacheFail
    \/ CacheRecover
    \/ Expire

Spec == Init /\ [][Next]_vars

\* ====================================================================
\* Properties
\* ====================================================================
Served200(ops) == resp.op \in ops /\ resp.status = 200 /\ resp.up

\* C1: with the cache available, when an entity's own Create/Update/Delete
\* has completed, that entity's collection key is absent and the List that
\* follows returns exactly the rows the store holds for that entity.
C1_NoStaleListAfterOwnMutation ==
    /\ Served200({"create_user", "update_user", "delete_user"}) =>
          /\ ~cache["users"].present
          /\ list_users_body = users_list(users)
    /\ Served200({"create_category", "update_category", "delete_category"}) =>
          /\ ~cache["categories"].present
          /\ list_categories_body = categories_list(categories)
    /\ Served200({"create_artikal", "update_artikal", "delete_artikal"}) =>
          /\ ~cache["artikli"].present
          /\ list_artikli_body = artikli_list(artikli)
    /\ Served200({"create_order", "update_order", "delete_order"}) =>
          /\ ~cache["orders"].present
          /\ list_orders_body = orders_data(orders)
    /\ Served200({"create_recenzija", "update_recenzija", "delete_recenzija"}) =>
          /\ ~cache["recenzije"].present
          /\ list_recenzije_body = recenzije_list(recenzije)

\* A listing was cached, then an update of a listed row completed.
C1_Witness ==
    /\ Served200({"update_recenzija"})
    /\ nreq = 3
    /\ cacheUp
    /\ recenzije_list(recenzije) = <<[id |-> 1, rating |-> "bad"]>>
    /\ cache[Key("recenzija", 1)].val = json_dumps([id |-> 1, rating |-> "bad"])

\* C2: once delete_category has completed for a category, the List Articles
\* that follows returns none of the articles the delete removed: every row
\* it returns is a row of the store.
C2_DeletedArticlesNotListed ==
    (Served200({"delete_category"}) /\ cacheUp) =>
        \A k \in 1..Len(list_artikli_body) :
            list_artikli_body[k].id \in DOMAIN artikli

\* C3: when Register has completed, the 'users' key is absent and the List
\* Users that follows contains the registered user.
C3_RegisterInvalidatesUsers ==
    (Served200({"register"}) /\ cacheUp) =>
        /\ ~cache["users"].present
        /\ \E k \in 1..Len(list_users_body) : list_users_body[k] = resp.body[1]

\* C4: the store transition that removes a user row removes, in the same
\* step, every order row referencing that user.
C4_UserDeletedWithOrders ==
    [][\A u \in Ids :
          (u \in DOMAIN users /\ u \notin DOMAIN users') =>
              \A o \in DOMAIN orders' : orders'[o].user_id # u]_vars

\* A user who had an order was deleted: the only order ever written is gone
\* and no delete_order was served.
C4_Witness ==
    /\ Served200({"delete_user"})
    /\ nreq = 3
    /\ nextId["orders"] = 2
    /\ DOMAIN orders = {}
    /\ DOMAIN users = {}

EmailTaken(email) == \E i \in DOMAIN users : users[i].email = email

\* C5: Register and Create(User) with an email of a stored user answer 400
\* and leave the users table and the cache as they were.
C5_DuplicateEmailRejected ==
    [][\A n \in UserNames, e \in Emails, p \in Passwords :
          ((register(n, e, p) \/ create_user(n, e, p)) /\ EmailTaken(e)) =>
              /\ resp'.status = 400
              /\ resp'.op \in {"register", "create_user"}
              /\ users' = users
              /\ nextId' = nextId
              /\ cache' = cache]_vars

\* A duplicate email was refused while the 'users' key was populated.
C5_Witness ==
    /\ resp.op \in {"register", "create_user"}
    /\ resp.status = 400
    /\ cache["users"].present
    /\ DOMAIN users # {}

\* C6: no two user rows have the same email.
C6_EmailUnique ==
    \A i, j \in DOMAIN users : users[i].email = users[j].email => i = j

\* An update that would have given two users one email was refused.
C6_Witness ==
    /\ resp.op = "update_user"
    /\ resp.detail = "IntegrityError"
    /\ Cardinality(DOMAIN users) = 2

\* C7: Create(Article) with a supplied category_id that is no stored
\* category answers 400, inserts no row and changes no cache key.
C7_UnknownCategoryRejected ==
    [][\A n \in ArtNames, d \in Descriptions, c \in CategoryIdInputs :
          (create_artikal(n, d, c) /\ c # None /\ c[1] \notin DOMAIN categories) =>
              /\ resp'.status = 400
              /\ artikli' = artikli
              /\ cache' = cache]_vars

\* C8: no request fails because the cache is unavailable.
C8_CacheFailureNotPropagated ==
    resp.detail # "ConnectionError"

\* The handlers that call redis_client.delete on a collection key.
Invalidators(k) ==
    CASE k = "users" -> {"create_user", "update_user", "delete_user"}
      [] k = "categories" -> {"create_category", "update_category", "delete_category"}
      [] k = "artikli" -> {"create_artikal", "update_artikal", "delete_artikal"}
      [] k = "orders" -> {"create_order", "update_order", "delete_order"}
      [] k = "recenzije" -> {"create_recenzija", "update_recenzija", "delete_recenzija"}

\* C10: of the collection keys only 'orders' is held with an expiration
\* (the one list_orders sets), so only it can lapse; once it has lapsed
\* List Orders returns the store's rows; another collection key that is
\* present stays present until a request removes it.
C10_OnlyOrdersExpire ==
    [][/\ \A k \in CollKeys :
             cache'[k].present =>
                 cache'[k].ex = (IF k = "orders" THEN ORDERS_EX ELSE 0)
       /\ (cache["orders"].present /\ ~cache'["orders"].present /\ nreq' = nreq) =>
             list_orders_body' = orders_data(orders')
       /\ \A k \in CollKeys \ {"orders"} :
             (cache[k].present /\ ~cache'[k].present) =>
                 (nreq' = nreq + 1 /\ resp'.op \in Invalidators(k))]_vars

\* The 'orders' key written by the last List Orders has lapsed.
C10_Witness ==
    /\ Served200({"list_orders"})
    /\ ~cache["orders"].present
    /\ DOMAIN orders # {}

\* ====================================================================
\* Interleaved requests: the handlers of /categories, one store or cache
\* call per step, served by concurrent workers.
\* ====================================================================
\* The session of the request worker p is serving: on the request's first
\* step the new one get_db opens, afterwards the one the request holds.
Session(p) ==
    IF procs[p].pc = "idle" THEN SessionLocal(sessions) ELSE procs[p].db
Opened(p) ==
    IF procs[p].pc = "idle" THEN get_db_open(sessions, Session(p)) ELSE sessions

\* The request goes on to its next call.
Goto(p, pc, id, name, rows) ==
    /\ procs' = [procs EXCEPT ![p] = [pc |-> pc, id |-> id, name |-> name,
                                      rows |-> rows, db |-> Session(p)]]
    /\ sessions' = Opened(p)

\* A new request is handed to the first free worker.
Start(p) ==
    /\ procs[p].pc = "idle"
    /\ \A q \in 1..(p - 1) : procs[q].pc # "idle"
    /\ Serving("categories")
    /\ nreq' = nreq + 1

\* The request ends, by a return or by an exception: get_db closes its session.
Return(p, op, status, detail, body) ==
    /\ resp' = [op |-> op, status |-> status, detail |-> detail, body |-> body,
                up |-> cacheUp]
    /\ procs' = [procs EXCEPT ![p] = IdleProc]
    /\ sessions' = get_db_close(Opened(p), Session(p))

\* categories = redis_client.get("categories"); if categories: return ...
list_categories_get(p) ==
    /\ Start(p)
    /\ IF ~cacheUp
       THEN Return(p, "list_categories", 500, "ConnectionError", <<>>)
       ELSE IF RedisGet(cache, "categories") # None
       THEN Return(p, "list_categories", 200, "",
                   json_loads(RedisGet(cache, "categories")))
       ELSE /\ Goto(p, "list_categories_query", 0, "", <<>>)
            /\ UNCHANGED resp
    /\ UNCHANGED <<store, cache, cacheUp, fkEnforced, workload>>

\* categories = db.query(Category).all()
list_categories_query(p) ==
    /\ procs[p].pc = "list_categories_query"
    /\ Goto(p, "list_categories_set", 0, "", categories_list(categories))
    /\ UNCHANGED <<store, cache, cacheUp, fkEnforced, resp, nreq, workload>>

\* redis_client.set("categories", json.dumps(categories_list)); return
list_categories_set(p) ==
    /\ procs[p].pc = "list_categories_set"
    /\ IF cacheUp
       THEN /\ cache' = RedisSet(cache, "categories", json_dumps(procs[p].rows))
            /\ Return(p, "list_categories", 200, "", procs[p].rows)
       ELSE /\ UNCHANGED cache
            /\ Return(p, "list_categories", 500, "ConnectionError", <<>>)
    /\ UNCHANGED <<store, cacheUp, fkEnforced, nreq, workload>>

\* db.add(db_category); db.commit(); db.refresh(db_category)
create_category_commit(p, name) ==
    /\ Start(p)
    /\ nextId["categories"] <= MaxId
    /\ categories' = Insert(categories, nextId["categories"], [name |-> name])
    /\ nextId' = Bump(nextId, "categories")
    /\ Goto(p, "create_category_delete", nextId["categories"], name, <<>>)
    /\ UNCHANGED <<users, artikli, orders, recenzije, cache, cacheUp, fkEnforced,
                   resp, workload>>

\* redis_client.delete("categories"); return db_category
create_category_delete(p) ==
    /\ procs[p].pc = "create_category_delete"
    /\ IF cacheUp
       THEN /\ cache' = RedisDelete(cache, "categories")
            /\ Return(p, "create_category", 200, "",
                      <<[id |-> procs[p].id, name |-> procs[p].name]>>)
       ELSE /\ UNCHANGED cache
            /\ Return(p, "create_category", 500, "ConnectionError", <<>>)
    /\ UNCHANGED <<store, cacheUp, fkEnforced, nreq, workload>>

\* db_category = db.query(Category).filter(Category.id == category_id).first()
update_category_query(p, category_id, name) ==
    /\ Start(p)
    /\ IF category_id \notin DOMAIN categories
       THEN Return(p, "update_category", 404, "Category not found", <<>>)
       ELSE /\ Goto(p, "update_category_commit", category_id, name, <<>>)
            /\ UNCHANGED resp
    /\ UNCHANGED <<store, cache, cacheUp, fkEnforced, workload>>

\* db_category.name = updated_category.name; db.commit(): the UPDATE of a
\* row another request has deleted matches no row and the commit fails.
update_category_commit(p) ==
    /\ procs[p].pc = "update_category_commit"
    /\ IF procs[p].id \in DOMAIN categories
       THEN /\ categories' = [categories EXCEPT ![procs[p].id] = [name |-> procs[p].name]]
            /\ Goto(p, "update_category_delete", procs[p].id, procs[p].name, <<>>)
            /\ UNCHANGED resp
       ELSE /\ Return(p, "update_category", 500, "StaleDataError", <<>>)
            /\ UNCHANGED categories
    /\ UNCHANGED <<users, artikli, orders, recenzije, nextId, cache, cacheUp,
                   fkEnforced, nreq, workload>>

\* try: redis_client.delete("categories") ...; return db_category
update_category_delete(p) ==
    /\ procs[p].pc = "update_category_delete"
    /\ cache' = GuardedDelete(cache, "categories")
    /\ Return(p, "update_category", 200, "",
              <<[id |-> procs[p].id, name |-> procs[p].name]>>)
    /\ UNCHANGED <<store, cacheUp, fkEnforced, nreq, workload>>

delete_category_query(p, category_id) ==
    /\ Start(p)
    /\ IF category_id \notin DOMAIN categories
       THEN Return(p, "delete_category", 404, "Category not found", <<>>)
       ELSE /\ Goto(p, "delete_category_commit", category_id, "", <<>>)
            /\ UNCHANGED resp
    /\ UNCHANGED <<store, cache, cacheUp, fkEnforced, workload>>

\* db.delete(db_category); db.commit()
delete_category_commit(p) ==
    /\ procs[p].pc = "delete_category_commit"
    /\ LET as == DeleteCategoryArtikli(artikli, procs[p].id)
           cs == Remove(categories, {procs[p].id})
       IN IF ~(ArtikliFK(as, cs) /\ OrdersFK(orders, as, users))
          THEN /\ Return(p, "delete_category", 500, "IntegrityError", <<>>)
               /\ UNCHANGED <<categories, artikli>>
          ELSE /\ categories' = cs
               /\ artikli' = as
               /\ Goto(p, "delete_category_delete", procs[p].id, "", <<>>)
               /\ UNCHANGED resp
    /\ UNCHANGED <<users, orders, recenzije, nextId, cache, cacheUp, fkEnforced,
                   nreq, workload>>

\* redis_client.delete("categories")
delete_category_delete(p) ==
    /\ procs[p].pc = "delete_category_delete"
    /\ IF cacheUp
       THEN /\ cache' = RedisDelete(cache, "categories")
            /\ Goto(p, "delete_category_delete_id", procs[p].id, "", <<>>)
            /\ UNCHANGED resp
       ELSE /\ UNCHANGED cache
            /\ Return(p, "delete_category", 500, "ConnectionError", <<>>)
    /\ UNCHANGED <<store, cacheUp, fkEnforced, nreq, workload>>

\* redis_client.delete(f"category:{category_id}"); return
delete_category_delete_id(p) ==
    /\ procs[p].pc = "delete_category_delete_id"
    /\ IF cacheUp
       THEN /\ cache' = RedisDelete(cache, Key("category", procs[p].id))
            /\ Return(p, "delete_category", 200, "", <<>>)
       ELSE /\ UNCHANGED cache
            /\ Return(p, "delete_category", 500, "ConnectionError", <<>>)
    /\ UNCHANGED <<store, cacheUp, fkEnforced, nreq, workload>>

NextConc ==
    \E p \in Procs :
        \/ list_categories_get(p)
        \/ list_categories_query(p)
        \/ list_categories_set(p)
        \/ \E n \in CatNames : create_category_commit(p, n)
        \/ create_category_delete(p)
        \/ \E i \in Ids, n \in CatNames : update_category_query(p, i, n)
        \/ update_category_commit(p)
        \/ update_category_delete(p)
        \/ \E i \in Ids : delete_category_query(p, i)
        \/ delete_category_commit(p)
        \/ delete_category_delete(p)
        \/ delete_category_delete_id(p)

SpecConc == Init /\ [][NextConc]_vars

\* The interleaved handlers while Redis may become unreachable.
NextConcOutage ==
    \/ NextConc
    \/ CacheFail
    \/ CacheRecover

SpecConcOutage == Init /\ [][NextConcOutage]_vars

\* What the store lists for a collection key.
Listing(k) ==
    CASE k = "users" -> users_list(users)
      [] k = "categories" -> categories_list(categories)
      [] k = "artikli" -> artikli_list(artikli)
      [] k = "orders" -> orders_data(orders)
      [] k = "recenzije" -> recenzije_list(recenzije)

\* C9: once no request is in flight, every collection key is absent or
\* holds the store's current listing.
C9_CacheDerivedWhenQuiescent ==
    (\A p \in Procs : procs[p].pc = "idle") =>
        \A k \in CollKeys :
            cache[k].present => json_loads(cache[k].val) = Listing(k)

\* --------------------------------------------------------------- C11
\* The request answered Not-Found and touched neither the store nor the cache.
NotFoundUntouched ==
    /\ resp'.status = 404
    /\ store' = store
    /\ cache' = cache

\* C11: an Update or a Delete addressed to an id that has no row is answered
\* 404, for each of the five entity types, and leaves every table and every
\* cache key (collection keys and per-id keys) as they were.
C11_MissingIdNotFound ==
    [][\A i \in Ids :
          /\ (/\ i \notin DOMAIN users
              /\ \/ delete_user(i)
                 \/ \E n \in UserNames, e \in Emails, p \in Passwords :
                       update_user(i, n, e, p)) => NotFoundUntouched
          /\ (/\ i \notin DOMAIN categories
              /\ \/ delete_category(i)
                 \/ \E n \in CatNames : update_category(i, n)) => NotFoundUntouched
          /\ (/\ i \notin DOMAIN artikli
              /\ \/ delete_artikal(i)
                 \/ \E n \in ArtNames, d \in Descriptions, c \in CategoryIdInputs :
                       update_artikal(i, n, d, c)) => NotFoundUntouched
          /\ (/\ i \notin DOMAIN orders
              /\ \/ delete_order(i)
                 \/ \E a \in OrderArtikalIds, u \in OrderUserIds :
                       update_order(i, a, u)) => NotFoundUntouched
          /\ (/\ i \notin DOMAIN recenzije
              /\ \/ delete_recenzija(i)
                 \/ \E r \in Ratings : update_recenzija(i, r)) => NotFoundUntouched]_vars

\* A Delete of a missing order was answered 404 while the collection key and
\* another order's per-id key were populated.
C11_Witness ==
    /\ resp.op = "delete_order"
    /\ resp.status = 404
    /\ cache["orders"].present
    /\ cache[Key("order", 1)].present
    /\ 1 \in DOMAIN orders

\* --------------------------------------------------------------- C12
\* Some row carries this email and the digest of this password.
Credentials(email, password) ==
    \E i \in DOMAIN users :
        /\ users[i].email = email
        /\ users[i].hashed_password = hash_password(password)

\* Login would accept this email and password.
Accepts(email, password) ==
    \E i \in DOMAIN users :
        /\ users[i].email = email
        /\ verify_password(password, users[i].hashed_password)

\* C12: Login answers 200 exactly when a user row with the email exists and
\* the supplied password is the one whose digest the row holds now, and 400
\* otherwise; either way it changes neither the store nor the cache. After a
\* successful Update of a user, the new password is the only one accepted for
\* the row's email.
C12_LoginChecksStoredHash ==
    [][/\ \A e \in Emails, p \in Passwords :
             login(e, p) =>
                 /\ resp'.status = (IF Credentials(e, p) THEN 200 ELSE 400)
                 /\ store' = store
                 /\ cache' = cache
       /\ \A i \in Ids, n \in UserNames, e \in Emails, p \in Passwords :
             (update_user(i, n, e, p) /\ resp'.status = 200) =>
                 \A q \in Passwords : Accepts(e, q)' <=> (q = p)]_vars

\* Both emails are registered and a Login was refused: the password did not
\* verify against the stored digest.
C12_Witness ==
    /\ resp.op = "login"
    /\ resp.status = 400
    /\ \A e \in Emails : EmailTaken(e)

\* --------------------------------------------------------------- C13
\* The dictionaries serialized under a cache key.
CachedDicts(k) ==
    LET data == json_loads(cache[k].val)
    IN IF k \in CollKeys THEN {data[j] : j \in DOMAIN data} ELSE {data}

SecretFields == {"hashed_password", "password"}

\* C13: no cache entry, under a collection key or a per-id key, carries a
\* password or a password digest, and every cached user snapshot has the
\* fields id, name and email and no other.
C13_NoPasswordInCache ==
    \A k \in AllKeys :
        cache[k].present =>
            \A d \in CachedDicts(k) :
                /\ DOMAIN d \cap SecretFields = {}
                /\ (k = "users" \/ k \in {Key("user", i) : i \in Ids}) =>
                       DOMAIN d = {"id", "name", "email"}

\* The listing of two stored users, each with a digest in the store, is cached.
C13_Witness ==
    /\ cache["users"].present
    /\ Len(json_loads(cache["users"].val)) = 2
    /\ \A i \in DOMAIN users : users[i].hashed_password \in {hash_password(p) : p \in Passwords}
    /\ Cardinality(DOMAIN users) = 2

\* --------------------------------------------------------------- C14
\* C14: once Delete(User) has succeeded, the List of orders returns no order
\* that references the deleted user, whether or not the key 'orders' was
\* populated before the deletion.
C14_DeletedUsersOrdersNotListed ==
    [][\A u \in Ids :
          (delete_user(u) /\ resp'.status = 200) =>
              \A j \in DOMAIN list_orders_body' : list_orders_body'[j].user_id # u]_vars

\* --------------------------------------------------------------- C15
\* C15: after a successful Delete(id), for each of the five entity types, the
\* cache holds no per-id snapshot of the deleted entity.
C15_NoSnapshotAfterDelete ==
    [][\A i \in Ids :
          /\ (delete_user(i) /\ resp'.status = 200) =>
                 ~cache'[Key("user", i)].present
          /\ (delete_category(i) /\ resp'.status = 200) =>
                 ~cache'[Key("category", i)].present
          /\ (delete_artikal(i) /\ resp'.status = 200) =>
                 ~cache'[Key("artikal", i)].present
          /\ (delete_order(i) /\ resp'.status = 200) =>
                 ~cache'[Key("order", i)].present
          /\ (delete_recenzija(i) /\ resp'.status = 200) =>
                 ~cache'[Key("recenzija", i)].present]_vars

\* --------------------------------------------------------------- C16
\* The per-id key holds this dictionary, serialized, with no expiration.
Snapshot(c, k, d) ==
    /\ c[k].present
    /\ c[k].val = json_dumps(d)
    /\ c[k].ex = 0

\* C16: a successful Update, for each of the five entity types, leaves the
\* collection key absent and the per-id key holding the updated entity's id
\* and public fields as stored, with no expiration.
C16_UpdateWritesSnapshot ==
    [][\A i \in Ids :
          /\ (/\ \E n \in UserNames, e \in Emails, p \in Passwords :
                    update_user(i, n, e, p)
              /\ resp'.status = 200 /\ resp'.up) =>
                 /\ ~cache'["users"].present
                 /\ Snapshot(cache', Key("user", i), UserDict(users', i))
          /\ (/\ \E n \in CatNames : update_category(i, n)
              /\ resp'.status = 200 /\ resp'.up) =>
                 /\ ~cache'["categories"].present
                 /\ Snapshot(cache', Key("category", i), CategoryDict(categories', i))
          /\ (/\ \E n \in ArtNames, d \in Descriptions, c \in CategoryIdInputs :
                    update_artikal(i, n, d, c)
              /\ resp'.status = 200 /\ resp'.up) =>
                 /\ ~cache'["artikli"].present
                 /\ Snapshot(cache', Key("artikal", i), ArtikalDict(artikli', i))
          /\ (/\ \E a \in OrderArtikalIds, u \in OrderUserIds : update_order(i, a, u)
              /\ resp'.status = 200 /\ resp'.up) =>
                 /\ ~cache'["orders"].present
                 /\ Snapshot(cache', Key("order", i), OrderDict(orders', i))
          /\ (/\ \E r \in Ratings : update_recenzija(i, r)
              /\ resp'.status = 200 /\ resp'.up) =>
                 /\ ~cache'["recenzije"].present
                 /\ Snapshot(cache', Key("recenzija", i), RecenzijaDict(recenzije', i))]_vars

\* --------------------------------------------------------------- C17
\* What a List step under collection key k did, Redis answering: on a hit
\* the cached listing is returned and the cache is left alone; on a miss the
\* store's rows are returned and cached under k, except that an empty store
\* is answered Not-Found with nothing cached where emptyNotFound holds.
ListOutcome(k, emptyNotFound) ==
    IF cache[k].present
    THEN /\ resp'.status = 200
         /\ resp'.body = json_loads(cache[k].val)
         /\ cache' = cache
    ELSE IF emptyNotFound /\ Listing(k) = <<>>
    THEN /\ resp'.status = 404
         /\ cache' = cache
    ELSE /\ resp'.status = 200
         /\ resp'.body = Listing(k)
         /\ cache'[k].present
         /\ json_loads(cache'[k].val) = Listing(k)
         /\ \A j \in AllKeys \ {k} : cache'[j] = cache[j]

\* C17: List never modifies the store. On a hit it returns the cached
\* listing, whatever the store holds; on a miss it returns the store's rows
\* and leaves the collection key holding exactly those rows. For articles a
\* miss with no rows is answered Not-Found and caches nothing; the other four
\* lists return the empty listing and cache it.
C17_ListCacheAside ==
    [][/\ (list_users \/ list_categories \/ list_artikli \/ list_orders
             \/ list_recenzije) => store' = store
       /\ (list_users /\ cacheUp) => ListOutcome("users", FALSE)
       /\ (list_categories /\ cacheUp) => ListOutcome("categories", FALSE)
       /\ (list_artikli /\ cacheUp) => ListOutcome("artikli", TRUE)
       /\ (list_orders /\ cacheUp) => ListOutcome("orders", FALSE)
       /\ (list_recenzije /\ cacheUp) => ListOutcome("recenzije", FALSE)]_vars

\* A List of users was served from a cached listing that differs from the
\* store's rows.
C17_Witness ==
    /\ resp.op = "list_users"
    /\ resp.status = 200
    /\ cache["users"].present
    /\ resp.body = json_loads(cache["users"].val)
    /\ resp.body # users_list(users)

\* A List of articles on a miss with no rows was answered Not-Found and
\* cached nothing, while a List of categories cached the empty listing.
C17_WitnessEmpty ==
    /\ resp.op = "list_artikli"
    /\ resp.status = 404
    /\ ~cache["artikli"].present
    /\ cache["categories"].present
    /\ json_loads(cache["categories"].val) = <<>>

\* --------------------------------------------------------------- C18
InFlight == {p \in Procs : procs[p].pc # "idle"}

\* C18: the open store sessions are exactly the sessions of the requests in
\* flight, one for each and no two the same: a request that has ended, by a
\* normal return, a 400 or 404, or an exception from the store or from an
\* unguarded cache call, has left no session open.
C18_SessionPerRequest ==
    /\ sessions = {procs[p].db : p \in InFlight}
    /\ \A p \in Procs : (p \in InFlight) <=> (procs[p].db # 0)
    /\ \A p, q \in InFlight : procs[p].db = procs[q].db => p = q

\* A request ended by the exception of an unguarded cache call while another
\* request is in flight: only the latter's session is open.
C18_Witness ==
    /\ resp.status = 500
    /\ resp.detail = "ConnectionError"
    /\ \E p \in InFlight : sessions = {procs[p].db}
    /\ Cardinality(InFlight) = 1
    /\ nreq >= 2

\* --------------------------------------------------------------- C19
\* C19: in every reachable state each article's category_id is null or the
\* id of a stored category.
C19_ArticleCategoryExists ==
    \A a \in DOMAIN artikli :
        \/ artikli[a].category_id = None
        \/ artikli[a].category_id[1] \in DOMAIN categories

====
